---------------------------- MODULE Spec2Model ----------------------------
(***************************************************************************)
(* Exercise-correction app: the OpenRouter client (openrouter_client.py)   *)
(* and the Streamlit page (app.py).                                        *)
(*                                                                         *)
(* Python values are modelled as follows.                                  *)
(*   str            a TLA+ string                                          *)
(*   Optional[str]  None is <<>>, a string s is <<s>>                      *)
(*   dict           a function from its keys (a record); a key the dict    *)
(*                  lacks is outside its DOMAIN                            *)
(*   list           a sequence                                             *)
(*   a JSON value   [type |-> "object", value |-> dict] or                 *)
(*                  [type |-> "array",  value |-> list]                    *)
(*   a call         [ok |-> TRUE, value |-> v] when it returns v,          *)
(*                  [ok |-> FALSE, exc |-> e] when it raises e             *)
(***************************************************************************)
EXTENDS Integers, Sequences, FiniteSets, TLC

VARIABLES
    \* ---- process and page state (Spec) ----
    secrets,            \* st.secrets: the OPENROUTER_KEY entry, or None
    environ,            \* os.environ after load_dotenv(): OPENROUTER_KEY, or None
    OPENROUTER_API_KEY, \* module global of openrouter_client, set at import
    fonts_installed,    \* whether the DejaVu font files exist on the host
    uploaded_files,     \* st.file_uploader value
    output_language,    \* sidebar text_input value
    user_preferences,   \* sidebar text_area value
    session_state,      \* st.session_state
    call,               \* the correct_exercises invocation of the latest click, or None
    page,               \* what the latest script run rendered
    \* ---- renderer inputs and outputs (SpecFormat) ----
    correction_data,    \* the argument of the two renderers
    output,             \* format_correction_output: the list `output`, or None
    pdf,                \* generate_pdf: its result, or None
    \* ---- prompt inputs and output (SpecPrompt) ----
    prompt_args,        \* <<output_language, user_preferences>> as passed
    system_prompt       \* build_system_prompt's result, or None

vars == <<secrets, environ, OPENROUTER_API_KEY, fonts_installed, uploaded_files,
          output_language, user_preferences, session_state, call, page,
          correction_data, output, pdf, prompt_args, system_prompt>>

appVars == <<secrets, environ, OPENROUTER_API_KEY, fonts_installed, uploaded_files,
             output_language, user_preferences, session_state, call, page>>
formatVars == <<correction_data, output, pdf>>
promptVars == <<prompt_args, system_prompt>>

---------------------------------------------------------------------------
(* Bounds of the model.                                                    *)

MaxExercises == 2     \* exercises in a rendered result
MaxQuestions == 2     \* questions in an exercise
MaxPhrases   == 2     \* phrases in a caller-supplied prompt argument

---------------------------------------------------------------------------
(* Python built-ins.                                                       *)

None == <<>>
Some(s) == <<s>>

Returns(v) == [ok |-> TRUE, value |-> v]
Raises(e)  == [ok |-> FALSE, exc |-> e]

\* dict.get(key, default)
Get(d, key, default) == IF key \in DOMAIN d THEN d[key] ELSE default

\* d[key] = value
SetItem(d, key, value) ==
    [k \in DOMAIN d \cup {key} |-> IF k = key THEN value ELSE d[k]]

\* del d[key]
DelItem(d, key) == [k \in DOMAIN d \ {key} |-> d[k]]

EmptyDict == [k \in {} |-> None]

Char(s, i) == SubSeq(s, i, i)

\* str.isspace for one ASCII character
IsSpace(c) == c \in {" ", "\t", "\n", "\r", "\f"}

RECURSIVE lstrip(_)
lstrip(s) ==
    IF Len(s) > 0 /\ IsSpace(Char(s, 1)) THEN lstrip(SubSeq(s, 2, Len(s))) ELSE s

RECURSIVE rstrip(_)
rstrip(s) ==
    IF Len(s) > 0 /\ IsSpace(Char(s, Len(s))) THEN rstrip(SubSeq(s, 1, Len(s) - 1)) ELSE s

\* str.strip()
strip(s) == rstrip(lstrip(s))

LowerOf(c) ==
    CASE c = "A" -> "a" [] c = "B" -> "b" [] c = "C" -> "c" [] c = "D" -> "d"
      [] c = "E" -> "e" [] c = "F" -> "f" [] c = "G" -> "g" [] c = "H" -> "h"
      [] c = "I" -> "i" [] c = "J" -> "j" [] c = "K" -> "k" [] c = "L" -> "l"
      [] c = "M" -> "m" [] c = "N" -> "n" [] c = "O" -> "o" [] c = "P" -> "p"
      [] c = "Q" -> "q" [] c = "R" -> "r" [] c = "S" -> "s" [] c = "T" -> "t"
      [] c = "U" -> "u" [] c = "V" -> "v" [] c = "W" -> "w" [] c = "X" -> "x"
      [] c = "Y" -> "y" [] c = "Z" -> "z" [] OTHER -> c

\* str.lower()
RECURSIVE lower(_)
lower(s) ==
    IF Len(s) = 0 THEN "" ELSE LowerOf(Char(s, 1)) \o lower(SubSeq(s, 2, Len(s)))

Digit(d) ==
    CASE d = 0 -> "0" [] d = 1 -> "1" [] d = 2 -> "2" [] d = 3 -> "3" [] d = 4 -> "4"
      [] d = 5 -> "5" [] d = 6 -> "6" [] d = 7 -> "7" [] d = 8 -> "8" [] d = 9 -> "9"

\* str(i) of a natural number, as an f-string renders it
RECURSIVE str(_)
str(i) == IF i < 10 THEN Digit(i) ELSE str(i \div 10) \o Digit(i % 10)

\* sep.join(lines)
RECURSIVE join(_, _)
join(sep, lines) ==
    IF Len(lines) = 0 THEN ""
    ELSE IF Len(lines) = 1 THEN lines[1]
    ELSE lines[1] \o sep \o join(sep, Tail(lines))

\* s[i-1:j] of Python, with 1-based inclusive bounds: a slice never fails
Slice(s, i, j) ==
    LET last == IF j > Len(s) THEN Len(s) ELSE j
    IN  IF i < 1 \/ i > last THEN SubSeq(s, 1, 0) ELSE SubSeq(s, i, last)

\* s.startswith(pattern, i-1)
StartsAt(s, i, pattern) == Slice(s, i, i + Len(pattern) - 1) = pattern

\* pattern in s
Contains(s, pattern) == \E i \in 1..(Len(s) - Len(pattern) + 1) : StartsAt(s, i, pattern)

\* s.count(pattern), for patterns that cannot overlap themselves
Count(s, pattern) ==
    Cardinality({i \in 1..(Len(s) - Len(pattern) + 1) : StartsAt(s, i, pattern)})

RECURSIVE Flatten(_)
Flatten(seqs) == IF Len(seqs) = 0 THEN <<>> ELSE Head(seqs) \o Flatten(Tail(seqs))

---------------------------------------------------------------------------
(* openrouter_client.format_correction_output                              *)
(*                                                                         *)
(* The list `output` is kept as it is built: each entry carries the text   *)
(* appended and the statement that appended it (kind).  The function's     *)
(* value is the texts joined by "\n".                                      *)

Line(kind, text) == [kind |-> kind, text |-> text]

\* the given data taken as it is, the .strip() left out
given_data_unstripped(exercise) == Get(exercise, "given_data", "")

\* given_data = exercise.get('given_data', '').strip()
given_data_of(exercise) == strip(Get(exercise, "given_data", ""))

\* given_data and given_data.lower() not in ['none', 'n/a', '-', '']
shows_given_data(given_data) ==
    given_data # "" /\ lower(given_data) \notin {"none", "n/a", "-", ""}

\* the body of the loop with enumerate counting from 0
question_lines_from_zero(i, q) ==
    << Line("question", "**" \o str(i - 1) \o ". " \o Get(q, "question", "") \o "**"),
       Line("blank", ""),
       Line("answer", Get(q, "answer", "")),
       Line("blank", ""),
       Line("blank", "") >>

\* the body of: for i, q in enumerate(exercise.get("questions", []), 1)
question_lines(i, q) ==
    << Line("question", "**" \o str(i) \o ". " \o Get(q, "question", "") \o "**"),
       Line("blank", ""),
       Line("answer", Get(q, "answer", "")),
       Line("blank", ""),
       Line("blank", "") >>

\* the body of: for exercise in correction_data.get("exercises", [])
exercise_lines(exercise) ==
    LET given_data == given_data_of(exercise)
        questions  == Get(exercise, "questions", <<>>)
    IN  << Line("heading", "## " \o Get(exercise, "exercise_name", "")),
           Line("blank", "") >>
        \o (IF shows_given_data(given_data)
            THEN << Line("given", "*" \o given_data \o "*"), Line("blank", "") >>
            ELSE << >>)
        \o Flatten([i \in 1..Len(questions) |-> question_lines(i, questions[i])])
        \o << Line("rule", "---"), Line("blank", "") >>

\* the list `output` when the loop ends
output_lines(data) ==
    LET exercises == Get(data, "exercises", <<>>)
    IN  Flatten([e \in 1..Len(exercises) |-> exercise_lines(exercises[e])])

Texts(lines) == [i \in 1..Len(lines) |-> lines[i].text]

\* a value that is no dict has no .get: AttributeError
format_correction_output(json) ==
    IF json.type # "object" THEN Raises("AttributeError")
    ELSE Returns(join("\n", Texts(output_lines(json.value))))

---------------------------------------------------------------------------
(* app.generate_pdf                                                        *)
(*                                                                         *)
(* The document is the sequence of drawing calls made on the FPDF object;  *)
(* a multi_cell carries the font set by the set_font before it.            *)

MultiCell(font, h, text) == [op |-> "multi_cell", font |-> font, h |-> h, text |-> text]
Ln(h) == [op |-> "ln", h |-> h]
RuleLine == [op |-> "line", color |-> <<200, 200, 200>>]

\* the body of: for i, q in enumerate(exercise.get("questions", []), 1)
pdf_question(i, q) ==
    << MultiCell(<<"DejaVu", "B", 12>>, 8, str(i) \o ". " \o Get(q, "question", "")),
       Ln(2),
       MultiCell(<<"DejaVu", "", 11>>, 7, Get(q, "answer", "")),
       Ln(5) >>

\* the body of the loop with the given data shown whenever it is not blank
pdf_exercise_any_given(exercise) ==
    LET given_data == given_data_of(exercise)
        questions  == Get(exercise, "questions", <<>>)
    IN  << MultiCell(<<"DejaVu", "B", 14>>, 10, Get(exercise, "exercise_name", "")),
           Ln(3) >>
        \o (IF given_data # ""
            THEN << MultiCell(<<"DejaVu", "I", 11>>, 8, given_data), Ln(3) >>
            ELSE << >>)
        \o Flatten([i \in 1..Len(questions) |-> pdf_question(i, questions[i])])
        \o << Ln(5), RuleLine, Ln(8) >>

\* the body of: for exercise in correction_data.get("exercises", [])
pdf_exercise(exercise) ==
    LET given_data == given_data_of(exercise)
        questions  == Get(exercise, "questions", <<>>)
    IN  << MultiCell(<<"DejaVu", "B", 14>>, 10, Get(exercise, "exercise_name", "")),
           Ln(3) >>
        \o (IF shows_given_data(given_data)
            THEN << MultiCell(<<"DejaVu", "I", 11>>, 8, given_data), Ln(3) >>
            ELSE << >>)
        \o Flatten([i \in 1..Len(questions) |-> pdf_question(i, questions[i])])
        \o << Ln(5), RuleLine, Ln(8) >>

pdf_body(data) ==
    LET exercises == Get(data, "exercises", <<>>)
    IN  Flatten([e \in 1..Len(exercises) |-> pdf_exercise(exercises[e])])

\* add_font raises when a font file is missing; a value that is no dict has no .get
generate_pdf(json) ==
    IF ~fonts_installed THEN Raises("FileNotFoundError")
    ELSE IF json.type # "object" THEN Raises("AttributeError")
    ELSE Returns(pdf_body(json.value))

---------------------------------------------------------------------------
(* Inputs of the renderers.                                                *)

SeqUpTo(S, n) == UNION {[1..k -> S] : k \in 0..n}

Object(d) == [type |-> "object", value |-> d]
Array(a)  == [type |-> "array", value |-> a]

\* given_data texts: empty, blank, the sentinels in several cases and with
\* surrounding whitespace, near misses of the sentinels, and real data
GivenDataValues ==
    {"", "  ", "none", " NONE ", "N/a", "-", "\t-\n", "None.", "x=5", " x=5 "}

QuestionValues ==
    { [question |-> "Compute x", answer |-> "x = 5"],
      [question |-> "Why?", answer |-> ""] }

\* exercises that vary the given data, exercises that vary the questions, and
\* an exercise dict with no key but "questions", whose question has no answer
ExerciseValues ==
    { [exercise_name |-> "Exercise 1", given_data |-> g,
       questions |-> << [question |-> "Find y", answer |-> "y = 2"] >>]
        : g \in GivenDataValues }
    \cup
    { [exercise_name |-> "", given_data |-> "a = 1", questions |-> qs]
        : qs \in SeqUpTo(QuestionValues, MaxQuestions) }
    \cup
    { [questions |-> << [question |-> "Find z"] >>] }

CorrectionResults ==
    { Object([exercises |-> es]) : es \in SeqUpTo(ExerciseValues, MaxExercises) }

---------------------------------------------------------------------------
(* SpecFormat: the two renderers applied to one value.                     *)

\* format_correction_output(correction_data), keeping the list it joined
FormatMarkdown ==
    /\ output = None
    /\ output' = Some([lines  |-> output_lines(correction_data.value),
                       result |-> format_correction_output(correction_data)])
    /\ UNCHANGED <<correction_data, pdf>>
    /\ UNCHANGED appVars
    /\ UNCHANGED promptVars

\* generate_pdf(correction_data)
GeneratePdf ==
    /\ pdf = None
    /\ pdf' = Some(generate_pdf(correction_data))
    /\ UNCHANGED <<correction_data, output>>
    /\ UNCHANGED appVars
    /\ UNCHANGED promptVars

InitFormat ==
    /\ correction_data \in CorrectionResults
    /\ output = None
    /\ pdf = None
    /\ secrets = None
    /\ environ = None
    /\ OPENROUTER_API_KEY = None
    /\ fonts_installed = TRUE
    /\ uploaded_files = << >>
    /\ output_language = ""
    /\ user_preferences = ""
    /\ session_state = EmptyDict
    /\ call = None
    /\ page = None
    /\ prompt_args = None
    /\ system_prompt = None

NextFormat == FormatMarkdown \/ GeneratePdf

SpecFormat == InitFormat /\ [][NextFormat]_vars

---------------------------------------------------------------------------
(* Properties of the renderers (SpecFormat).                               *)

Exercises == Get(correction_data.value, "exercises", <<>>)

KindPositions(lines, kind) == {i \in 1..Len(lines) : lines[i].kind = kind}

\* the index of the e-th separator rule of the list
RuleAt(lines, e) ==
    CHOOSE i \in KindPositions(lines, "rule") :
        Cardinality({j \in KindPositions(lines, "rule") : j <= i}) = e

\* what the e-th exercise appended: from its heading to its separator rule
BlockOf(lines, e) ==
    SubSeq(lines, IF e = 1 THEN 1 ELSE RuleAt(lines, e - 1) + 2, RuleAt(lines, e))

IsSentinel(trimmed) ==
    trimmed = "" \/ \E s \in {"none", "n/a", "-"} : lower(trimmed) = s

\* C6: for every exercise, no given-data line is emitted when given_data, trimmed,
\* is empty or is "none", "n/a" or "-" in any letter case; otherwise exactly one
\* line *<trimmed given_data>* is emitted, after the exercise heading and before
\* the exercise's first question.
C6_GivenDataLine ==
    output # None =>
        LET lines == output[1].lines
        IN  /\ Cardinality(KindPositions(lines, "rule")) = Len(Exercises)
            /\ \A e \in 1..Len(Exercises) :
                 LET block   == BlockOf(lines, e)
                     trimmed == strip(Get(Exercises[e], "given_data", ""))
                     givens  == KindPositions(block, "given")
                 IN  /\ block[1].kind = "heading"
                     /\ IF IsSentinel(trimmed)
                        THEN givens = {}
                        ELSE /\ Cardinality(givens) = 1
                             /\ \A g \in givens :
                                  /\ block[g].text = "*" \o trimmed \o "*"
                                  /\ g > 1
                                  /\ \A q \in KindPositions(block, "question") : g < q

\* an exercise whose given data is a sentinel in upper case between spaces is
\* followed by one whose given data is real and padded, and both are rendered
C6_Witness ==
    /\ output # None
    /\ Len(Exercises) = 2
    /\ Get(Exercises[1], "given_data", "") = " NONE "
    /\ Get(Exercises[2], "given_data", "") = " x=5 "
    /\ Len(Get(Exercises[2], "questions", <<>>)) > 0

IsQuestionLine(l) == l.kind = "question"
IsAnswerLine(l) == l.kind = "answer"

\* C7: the k-th question of every exercise is rendered with number k, whatever the
\* earlier exercises hold, and exercises and questions come out in array order.
C7_NumberingAndOrder ==
    output # None =>
        LET lines == output[1].lines
        IN  /\ Cardinality(KindPositions(lines, "rule")) = Len(Exercises)
            /\ \A e \in 1..Len(Exercises) :
                 LET block     == BlockOf(lines, e)
                     questions == Get(Exercises[e], "questions", <<>>)
                     asked     == SelectSeq(block, IsQuestionLine)
                     answered  == SelectSeq(block, IsAnswerLine)
                 IN  /\ block[1].text = "## " \o Get(Exercises[e], "exercise_name", "")
                     /\ Len(asked) = Len(questions)
                     /\ Len(answered) = Len(questions)
                     /\ \A k \in 1..Len(questions) :
                          /\ asked[k].text =
                               "**" \o Digit(k) \o ". " \o Get(questions[k], "question", "") \o "**"
                          /\ answered[k].text = Get(questions[k], "answer", "")
                     /\ \A i, j \in KindPositions(block, "question") :
                          i < j => \E a \in KindPositions(block, "answer") : i < a /\ a < j

\* two exercises rendered, the first with two different questions and the second
\* with at least one: the numbers read 1, 2, then 1
C7_Witness ==
    /\ output # None
    /\ Len(Exercises) = 2
    /\ Len(Get(Exercises[1], "questions", <<>>)) = 2
    /\ Exercises[1].questions[1] # Exercises[1].questions[2]
    /\ Len(Get(Exercises[2], "questions", <<>>)) >= 1
    /\ Exercises[1] # Exercises[2]

\* the content elements of the Markdown list: the markup of each line removed,
\* the blank lines dropped
MdElement(l) ==
    CASE l.kind = "heading"  -> <<"exercise_name", Slice(l.text, 4, Len(l.text))>>
      [] l.kind = "given"    -> <<"given_data", Slice(l.text, 2, Len(l.text) - 1)>>
      [] l.kind = "question" -> <<"question", Slice(l.text, 3, Len(l.text) - 2)>>
      [] l.kind = "answer"   -> <<"answer", l.text>>
      [] l.kind = "rule"     -> <<"rule", "">>

IsContentLine(l) == l.kind # "blank"

MdElements(lines) ==
    LET content == SelectSeq(lines, IsContentLine)
    IN  [i \in 1..Len(content) |-> MdElement(content[i])]

\* the content elements of the document: each text with the role its font gives
\* it, the vertical spacing dropped
PdfElement(c) ==
    CASE c.op = "line" -> <<"rule", "">>
      [] c.op = "multi_cell" /\ c.font = <<"DejaVu", "B", 14>> -> <<"exercise_name", c.text>>
      [] c.op = "multi_cell" /\ c.font = <<"DejaVu", "I", 11>> -> <<"given_data", c.text>>
      [] c.op = "multi_cell" /\ c.font = <<"DejaVu", "B", 12>> -> <<"question", c.text>>
      [] c.op = "multi_cell" /\ c.font = <<"DejaVu", "", 11>>  -> <<"answer", c.text>>

IsContentCall(c) == c.op # "ln"

PdfElements(calls) ==
    LET content == SelectSeq(calls, IsContentCall)
    IN  [i \in 1..Len(content) |-> PdfElement(content[i])]

\* C9: generate_pdf emits the same sequence of content elements as
\* format_correction_output: exercise name, given data exactly when the Markdown
\* shows it, numbered questions with their answers, a separator rule.
C9_PdfMatchesMarkdown ==
    (output # None /\ pdf # None /\ pdf[1].ok) =>
        /\ output[1].result.ok
        /\ PdfElements(pdf[1].value) = MdElements(output[1].lines)
        /\ Len(Exercises) > 0 => Len(pdf[1].value) > 0

\* both renderings exist of a result with a suppressed and a shown given data and
\* an exercise of two questions
C9_Witness ==
    /\ output # None
    /\ pdf # None
    /\ pdf[1].ok
    /\ Len(Exercises) = 2
    /\ Get(Exercises[1], "given_data", "") = "N/a"
    /\ Get(Exercises[2], "given_data", "") = "a = 1"
    /\ Len(Get(Exercises[2], "questions", <<>>)) = 2

---------------------------------------------------------------------------
(* openrouter_client.build_system_prompt                                   *)

\* Python truth value of an Optional[str]: None and "" are false
Truthy(opt) == opt # None /\ opt[1] # ""

base_prompt ==
    "You are an expert teacher and exercise corrector. Your task is to:\n"
    \o "1. Analyze the uploaded exercise image(s)\n"
    \o "2. Extract all exercises, questions, and given data\n"
    \o "3. Provide correct, detailed answers for each question\n"
    \o "\n"
    \o "For each exercise, include:\n"
    \o "- The exercise name or number\n"
    \o "- Any given data or context\n"
    \o "- Each question with its complete correct answer and explanation\n"

\* the prompt with the preferences clause appended whatever user_preferences is
build_system_prompt_always_preferences(language, preferences) ==
    base_prompt
    \o (IF Truthy(language)
        THEN "\n\nIMPORTANT: Respond in " \o language[1] \o "."
        ELSE "\n\nIMPORTANT: Respond in the same language as the exercise content.")
    \o "\n\nUser preferences: " \o (IF preferences = None THEN "None" ELSE preferences[1])

build_system_prompt(language, preferences) ==
    base_prompt
    \o (IF Truthy(language)
        THEN "\n\nIMPORTANT: Respond in " \o language[1] \o "."
        ELSE "\n\nIMPORTANT: Respond in the same language as the exercise content.")
    \o (IF Truthy(preferences)
        THEN "\n\nUser preferences: " \o preferences[1]
        ELSE "")

---------------------------------------------------------------------------
(* SpecPrompt: build_system_prompt applied to one pair of arguments.       *)

Optional(texts) == {None} \cup {Some(t) : t \in texts}

LanguagePhrases == {"French", "Arabic", " or "}

PreferencePhrases ==
    { "Be concise. ",
      "Keep the same language as the exercise content. ",
      "Respond in Arabic. " }

LanguageTexts == {join("", ps) : ps \in SeqUpTo(LanguagePhrases, MaxPhrases)}
PreferenceTexts == {join("", ps) : ps \in SeqUpTo(PreferencePhrases, MaxPhrases)}

BuildSystemPrompt ==
    /\ system_prompt = None
    /\ system_prompt' = Some(build_system_prompt(prompt_args[1], prompt_args[2]))
    /\ UNCHANGED prompt_args
    /\ UNCHANGED appVars
    /\ UNCHANGED formatVars

InitPrompt ==
    /\ prompt_args \in Optional(LanguageTexts) \X Optional(PreferenceTexts)
    /\ system_prompt = None
    /\ correction_data = Object([exercises |-> << >>])
    /\ output = None
    /\ pdf = None
    /\ secrets = None
    /\ environ = None
    /\ OPENROUTER_API_KEY = None
    /\ fonts_installed = TRUE
    /\ uploaded_files = << >>
    /\ output_language = ""
    /\ user_preferences = ""
    /\ session_state = EmptyDict
    /\ call = None
    /\ page = None

NextPrompt == BuildSystemPrompt

SpecPrompt == InitPrompt /\ [][NextPrompt]_vars

---------------------------------------------------------------------------
(* Properties of the prompt (SpecPrompt).                                  *)

FallbackPhrase == "same language as the exercise content"
DirectiveWords == "Respond in "
PreferencesWords == "User preferences: "

\* the text an argument contributes to the prompt
Given(opt) == IF Truthy(opt) THEN opt[1] ELSE ""

\* C8 as stated: exactly one language directive, after the task description and
\* before any preferences clause; with a non-empty output_language the prompt
\* contains "Respond in <output_language>" and not the same-language fallback;
\* without one it contains the fallback and no directive naming a language; the
\* preferences clause is present exactly when user_preferences is non-empty.
C8_AsStated ==
    system_prompt # None =>
        LET p        == system_prompt[1]
            language == prompt_args[1]
            prefs    == prompt_args[2]
        IN  /\ StartsAt(p, 1, base_prompt)
            /\ Count(p, DirectiveWords) = 1
            /\ Truthy(language) =>
                 /\ Contains(p, DirectiveWords \o language[1])
                 /\ ~Contains(p, FallbackPhrase)
            /\ ~Truthy(language) =>
                 /\ Contains(p, FallbackPhrase)
                 /\ \A i \in 1..Len(p) :
                      StartsAt(p, i, DirectiveWords)
                        => StartsAt(p, i, DirectiveWords \o "the " \o FallbackPhrase)
            /\ Contains(p, PreferencesWords) <=> Truthy(prefs)

\* C8, amended: the prompt is the task description, then one directive of the
\* function's own ("Respond in <output_language>." with a non-empty
\* output_language, the same-language fallback sentence without), then, exactly
\* when user_preferences is non-empty, the preferences clause, which ends the
\* prompt; every other occurrence of "Respond in", of the fallback phrase or of
\* "User preferences:" is one the caller's own texts contain.
C8_PromptStructure ==
    system_prompt # None =>
        LET p         == system_prompt[1]
            language  == prompt_args[1]
            prefs     == prompt_args[2]
            supplied  == Given(language) \o Given(prefs)
            head      == "\n\nIMPORTANT: " \o DirectiveWords
            directive == IF Truthy(language)
                         THEN head \o language[1] \o "."
                         ELSE head \o "the " \o FallbackPhrase \o "."
            clause    == "\n\n" \o PreferencesWords \o Given(prefs)
            after     == Len(base_prompt) + Len(directive)
        IN  /\ StartsAt(p, 1, base_prompt)
            /\ StartsAt(p, Len(base_prompt) + 1, directive)
            /\ IF Truthy(prefs)
               THEN Slice(p, after + 1, Len(p)) = clause
               ELSE Len(p) = after
            /\ Count(p, DirectiveWords) =
                 1 + Count(Given(language), DirectiveWords) + Count(Given(prefs), DirectiveWords)
            /\ Count(p, FallbackPhrase) =
                 (IF Truthy(language) THEN 0 ELSE 1)
                 + Count(Given(language), FallbackPhrase) + Count(Given(prefs), FallbackPhrase)
            /\ Count(p, PreferencesWords) =
                 (IF Truthy(prefs) THEN 1 ELSE 0)
                 + Count(Given(language), PreferencesWords) + Count(Given(prefs), PreferencesWords)

\* a prompt built for French whose preferences ask to keep the exercise's language
C8_Witness ==
    /\ system_prompt # None
    /\ prompt_args[1] = Some("French")
    /\ Truthy(prompt_args[2])
    /\ Contains(prompt_args[2][1], FallbackPhrase)
    /\ Contains(system_prompt[1], "Respond in French.")

---------------------------------------------------------------------------
(* openrouter_client: configuration, request and response                  *)

OPENROUTER_URL == "https://openrouter.ai/api/v1/chat/completions"
MODEL == "google/gemini-3-flash-preview"

\* the try/except at import: st.secrets["OPENROUTER_KEY"] raises when the entry is
\* missing, and os.getenv then gives the variable or None
ApiKeyAtImport(secret, variable) == IF secret # None THEN secret ELSE variable

\* "{x}" in an f-string
FormatValue(opt) == IF opt = None THEN "None" ELSE opt[1]

b64alphabet == "ABCDEFGHIJKLMNOPQRSTUVWXYZabcdefghijklmnopqrstuvwxyz0123456789+/"
b64char(n) == Char(b64alphabet, n + 1)

\* base64.b64encode(image_bytes).decode('utf-8')
RECURSIVE b64encode(_)
b64encode(bytes) ==
    IF Len(bytes) = 0 THEN ""
    ELSE IF Len(bytes) = 1 THEN
        b64char(bytes[1] \div 4) \o b64char((bytes[1] % 4) * 16) \o "=="
    ELSE IF Len(bytes) = 2 THEN
        b64char(bytes[1] \div 4) \o b64char((bytes[1] % 4) * 16 + bytes[2] \div 16)
        \o b64char((bytes[2] % 16) * 4) \o "="
    ELSE
        b64char(bytes[1] \div 4) \o b64char((bytes[1] % 4) * 16 + bytes[2] \div 16)
        \o b64char((bytes[2] % 16) * 4 + bytes[3] \div 64) \o b64char(bytes[3] % 64)
        \o b64encode(SubSeq(bytes, 4, Len(bytes)))

encode_image_to_base64(image_bytes, mime_type) ==
    "data:" \o mime_type \o ";base64," \o b64encode(image_bytes)

get_correction_schema ==
    [type |-> "json_schema",
     json_schema |->
       [name |-> "exercise_correction",
        strict |-> TRUE,
        schema |->
          [type |-> "object",
           properties |->
             [exercises |->
                [type |-> "array",
                 items |->
                   [type |-> "object",
                    properties |->
                      [exercise_name |-> [type |-> "string"],
                       given_data |-> [type |-> "string"],
                       questions |->
                         [type |-> "array",
                          items |->
                            [type |-> "object",
                             properties |-> [question |-> [type |-> "string"],
                                             answer |-> [type |-> "string"]],
                             required |-> <<"question", "answer">>,
                             additionalProperties |-> FALSE]]],
                    required |-> <<"exercise_name", "given_data", "questions">>,
                    additionalProperties |-> FALSE]]],
           required |-> <<"exercises">>,
           additionalProperties |-> FALSE]]]

\* Response.raise_for_status(): HTTPError for a 4xx or 5xx status, and for no other
raise_for_status(response) == 400 <= response.status_code /\ response.status_code < 600

\* The request correct_exercises builds, the requests it posts, and how it ends
\* given the answer the network gives to the post.
\*   response.kind = "connection_error"   requests.post raises
\*   response.kind = "http"               status_code, and a body that is JSON
\*                                        (body.json, body.data) or is not
\* A message content is a text that json.loads parses to `value`, or fails on.
correct_exercises(images, language, preferences, response) ==
    LET headers == [Authorization |-> "Bearer " \o FormatValue(OPENROUTER_API_KEY),
                    ContentType   |-> "application/json"]
        content ==
            << [type |-> "text",
                text |-> "Please analyze and correct the exercises in the following image(s)."] >>
            \o [i \in 1..Len(images) |->
                  [type |-> "image_url",
                   image_url |-> [url |-> encode_image_to_base64(images[i][1], images[i][2])]]]
        messages ==
            << [role |-> "system", content |-> build_system_prompt(language, preferences)],
               [role |-> "user", content |-> content] >>
        payload == [model |-> MODEL, messages |-> messages,
                    response_format |-> get_correction_schema]
        post == [url |-> OPENROUTER_URL, headers |-> headers, json |-> payload]
        outcome ==
            IF response.kind = "connection_error" THEN Raises("ConnectionError")
            ELSE IF raise_for_status(response) THEN Raises("HTTPError")
            ELSE IF ~response.body.json THEN Raises("requests.JSONDecodeError")
            ELSE IF "choices" \notin DOMAIN response.body.data THEN Raises("KeyError")
            ELSE IF Len(response.body.data.choices) = 0 THEN Raises("IndexError")
            ELSE LET content_str == response.body.data.choices[1].message.content
                 IN  IF ~content_str.json THEN Raises("json.JSONDecodeError")
                     ELSE Returns(content_str.value)
    IN  [sent |-> << post >>, outcome |-> outcome]

---------------------------------------------------------------------------
(* app.py: one run of the page script                                      *)
(*                                                                         *)
(* A page is what one run of the script rendered:                          *)
(*   trigger        the interaction that started the run                   *)
(*   error          the st.error message of the Correct branch, or None    *)
(*   markdown, json the two result tabs, or None                           *)
(*   md_download    the data of the Markdown download button, or None      *)
(*   pdf_download   the data of the PDF download button, or None           *)
(*   pdf_warning    the st.warning of the PDF export, or None              *)
(*   clear_button   whether the Clear Results button was rendered          *)
(*   uncaught       the exception that ended the run, or None              *)

\* the block with generate_pdf called outside any try
results_section_without_try(session) ==
    IF "correction_result" \notin DOMAIN session THEN
        [markdown |-> None, json |-> None, md_download |-> None, pdf_download |-> None,
         pdf_warning |-> None, clear_button |-> FALSE, uncaught |-> None]
    ELSE IF "formatted_result" \notin DOMAIN session THEN
        [markdown |-> None, json |-> None, md_download |-> None, pdf_download |-> None,
         pdf_warning |-> None, clear_button |-> FALSE, uncaught |-> Some("AttributeError")]
    ELSE
        LET pdf_bytes == generate_pdf(session["correction_result"])
        IN  [markdown     |-> Some(session["formatted_result"]),
             json         |-> Some(session["correction_result"]),
             md_download  |-> Some(session["formatted_result"]),
             pdf_download |-> IF pdf_bytes.ok THEN Some(pdf_bytes.value) ELSE None,
             pdf_warning  |-> IF pdf_bytes.ok THEN None ELSE Some(pdf_bytes.exc),
             clear_button |-> pdf_bytes.ok,
             uncaught     |-> IF pdf_bytes.ok THEN None ELSE Some(pdf_bytes.exc)]

\* the "Display results" block
results_section(session) ==
    IF "correction_result" \notin DOMAIN session THEN
        [markdown |-> None, json |-> None, md_download |-> None, pdf_download |-> None,
         pdf_warning |-> None, clear_button |-> FALSE, uncaught |-> None]
    ELSE IF "formatted_result" \notin DOMAIN session THEN
        \* st.session_state.formatted_result raises, outside any try
        [markdown |-> None, json |-> None, md_download |-> None, pdf_download |-> None,
         pdf_warning |-> None, clear_button |-> FALSE, uncaught |-> Some("AttributeError")]
    ELSE
        LET pdf_bytes == generate_pdf(session["correction_result"])
        IN  [markdown     |-> Some(session["formatted_result"]),
             json         |-> Some(session["correction_result"]),
             md_download  |-> Some(session["formatted_result"]),
             pdf_download |-> IF pdf_bytes.ok THEN Some(pdf_bytes.value) ELSE None,
             pdf_warning  |-> IF pdf_bytes.ok THEN None ELSE Some(pdf_bytes.exc),
             clear_button |-> TRUE,
             uncaught     |-> None]

\* a whole run that ends at the footer or at an uncaught exception
script_run(trigger, error, session) ==
    LET shown == results_section(session)
    IN  [trigger |-> trigger, error |-> error,
         markdown |-> shown.markdown, json |-> shown.json,
         md_download |-> shown.md_download, pdf_download |-> shown.pdf_download,
         pdf_warning |-> shown.pdf_warning, clear_button |-> shown.clear_button,
         uncaught |-> shown.uncaught]

\* x.strip() if x and x.strip() else None
stripped_or_none(text) ==
    IF text # "" /\ strip(text) # "" THEN Some(strip(text)) ELSE None

\* mime_type = file.type if file.type else "image/jpeg"; (file.getvalue(), mime_type)
prepare_images(files) ==
    [i \in 1..Len(files) |->
        << files[i].data, IF files[i].type # "" THEN files[i].type ELSE "image/jpeg" >>]

\* a store that appends the new exercises to the stored ones
store_result_merging(session, result) ==
    IF /\ "correction_result" \in DOMAIN session
       /\ session["correction_result"].type = "object"
       /\ result.type = "object"
    THEN SetItem(session, "correction_result",
                 Object([exercises |-> Get(session["correction_result"].value, "exercises", <<>>)
                                       \o Get(result.value, "exercises", <<>>)]))
    ELSE SetItem(session, "correction_result", result)

\* st.session_state.correction_result = result
store_result(session, result) == SetItem(session, "correction_result", result)

---------------------------------------------------------------------------
(* The environment of the page.                                            *)

KeyValues == Optional({"sk-or-v1-0123"})

\* what the uploader holds: nothing, or two images, the second with no MIME type
UploadValues ==
    { << >>,
      << [name |-> "page1.png", type |-> "image/png", data |-> <<137, 80, 78, 71>>],
         [name |-> "scan",      type |-> "",          data |-> <<255, 216, 255>>] >> }

LanguageInputs == {"", "  ", " French "}
PreferenceInputs == {"", " Be concise. "}

SolvedExercise ==
    [exercise_name |-> "Exercise 1", given_data |-> " x=5 ",
     questions |-> << [question |-> "Compute 2x", answer |-> "10"],
                      [question |-> "Why?", answer |-> "2 * 5 = 10"] >>]

OtherExercise ==
    [exercise_name |-> "Exercise 2", given_data |-> "None",
     questions |-> << [question |-> "Find y", answer |-> "y = 2"] >>]

\* one question of it has no "answer"
PartialExercise ==
    [exercise_name |-> "Exercise 3", given_data |-> "",
     questions |-> << [question |-> "Find z", answer |-> "z = 1"],
                      [question |-> "Find t"] >>]

\* what the message content of a completion parses to: results of the declared
\* shape, an object with a question that lacks its answer, and a JSON array
ContentValues ==
    { Object([exercises |-> << SolvedExercise >>]),
      Object([exercises |-> << OtherExercise, SolvedExercise >>]),
      Object([exercises |-> << PartialExercise >>]),
      Array(<< >>) }

JsonText(v) == [json |-> TRUE, value |-> v]
NotJsonText == [json |-> FALSE]

Completion(content_str) ==
    [json |-> TRUE, data |-> [choices |-> << [message |-> [content |-> content_str]] >>]]

Bodies ==
    { [json |-> FALSE],
      [json |-> TRUE, data |-> [error |-> "provider error"]],
      Completion(NotJsonText) }
    \cup { Completion(JsonText(v)) : v \in ContentValues }

\* the answers of the network to one post: no answer at all; an error status,
\* whose body is never read; 200 with any body; a 3xx status that requests does
\* not follow, with a body that is not JSON and with a completion
Responses ==
    { [kind |-> "connection_error"] }
    \cup { [kind |-> "http", status_code |-> c,
            body |-> [json |-> TRUE, data |-> [error |-> "provider error"]]] : c \in {401, 500} }
    \cup { [kind |-> "http", status_code |-> 200, body |-> b] : b \in Bodies }
    \cup { [kind |-> "http", status_code |-> 304, body |-> b] :
            b \in { [json |-> FALSE],
                    Completion(JsonText(Object([exercises |-> << SolvedExercise >>]))) } }

---------------------------------------------------------------------------
(* Spec: the page under the user's interactions.  Each action is one       *)
(* interaction with the script run it starts, an st.rerun() included.      *)

\* what `call` keeps of the posts of an invocation: where each went, its
\* credential, its system message, its images and its response format
Posted(sent) ==
    [i \in 1..Len(sent) |->
        [url           |-> sent[i].url,
         Authorization |-> sent[i].headers.Authorization,
         model         |-> sent[i].json.model,
         system        |-> sent[i].json.messages[1].content,
         images        |-> [k \in 1..(Len(sent[i].json.messages[2].content) - 1) |->
                              sent[i].json.messages[2].content[k + 1].image_url.url],
         strict_schema |-> sent[i].json.response_format.json_schema.strict]]

\* the file uploader changes: the script runs again
ChangeUploads ==
    /\ \E files \in UploadValues :
         /\ files # uploaded_files
         /\ uploaded_files' = files
    /\ page' = script_run("widget", None, session_state)
    /\ call' = None
    /\ UNCHANGED <<secrets, environ, OPENROUTER_API_KEY, fonts_installed,
                   output_language, user_preferences, session_state>>
    /\ UNCHANGED formatVars
    /\ UNCHANGED promptVars

\* the Output Language input changes
ChangeLanguage ==
    /\ \E text \in LanguageInputs :
         /\ text # output_language
         /\ output_language' = text
    /\ page' = script_run("widget", None, session_state)
    /\ call' = None
    /\ UNCHANGED <<secrets, environ, OPENROUTER_API_KEY, fonts_installed,
                   uploaded_files, user_preferences, session_state>>
    /\ UNCHANGED formatVars
    /\ UNCHANGED promptVars

\* the Preferences text area changes
ChangePreferences ==
    /\ \E text \in PreferenceInputs :
         /\ text # user_preferences
         /\ user_preferences' = text
    /\ page' = script_run("widget", None, session_state)
    /\ call' = None
    /\ UNCHANGED <<secrets, environ, OPENROUTER_API_KEY, fonts_installed,
                   uploaded_files, output_language, session_state>>
    /\ UNCHANGED formatVars
    /\ UNCHANGED promptVars

\* Correct Exercises with nothing uploaded: an error message, no call
ClickCorrectWithoutFiles ==
    /\ Len(uploaded_files) = 0
    /\ page' = script_run("correct", Some("Please upload at least one image first."),
                          session_state)
    /\ call' = None
    /\ UNCHANGED <<secrets, environ, OPENROUTER_API_KEY, fonts_installed, uploaded_files,
                   output_language, user_preferences, session_state>>
    /\ UNCHANGED formatVars
    /\ UNCHANGED promptVars

\* Correct Exercises with images uploaded: the try block around correct_exercises,
\* the two stores and st.rerun(); an exception of any of them is shown by st.error
\* and the run goes on to the results block
ClickCorrect ==
    /\ Len(uploaded_files) > 0
    /\ \E response \in Responses :
         LET done   == correct_exercises(prepare_images(uploaded_files),
                                         stripped_or_none(output_language),
                                         stripped_or_none(user_preferences),
                                         response)
             stored == store_result(session_state, done.outcome.value)
             text   == format_correction_output(done.outcome.value)
             after  == IF ~done.outcome.ok THEN session_state
                       ELSE IF ~text.ok THEN stored
                       ELSE SetItem(stored, "formatted_result", text.value)
             error  == IF ~done.outcome.ok THEN Some(done.outcome.exc)
                       ELSE IF ~text.ok THEN Some(text.exc)
                       ELSE None
         IN  /\ session_state' = after
             /\ page' = script_run("correct", error, after)
             /\ call' = Some([sent |-> Posted(done.sent), response |-> response,
                              outcome |-> done.outcome, before |-> session_state])
    /\ UNCHANGED <<secrets, environ, OPENROUTER_API_KEY, fonts_installed, uploaded_files,
                   output_language, user_preferences>>
    /\ UNCHANGED formatVars
    /\ UNCHANGED promptVars

\* Clear Results, a button of the results block: both keys are deleted and
\* st.rerun() renders the page again
ClickClear ==
    /\ page.clear_button
    /\ session_state' = DelItem(DelItem(session_state, "correction_result"), "formatted_result")
    /\ page' = script_run("clear", None, session_state')
    /\ call' = None
    /\ UNCHANGED <<secrets, environ, OPENROUTER_API_KEY, fonts_installed, uploaded_files,
                   output_language, user_preferences>>
    /\ UNCHANGED formatVars
    /\ UNCHANGED promptVars

\* a download button is clicked: the script runs again
ClickDownload ==
    /\ page.md_download # None \/ page.pdf_download # None
    /\ page' = script_run("download", None, session_state)
    /\ call' = None
    /\ UNCHANGED <<secrets, environ, OPENROUTER_API_KEY, fonts_installed, uploaded_files,
                   output_language, user_preferences, session_state>>
    /\ UNCHANGED formatVars
    /\ UNCHANGED promptVars

\* the process has imported openrouter_client and run the script once
Init ==
    /\ secrets \in KeyValues
    /\ environ \in KeyValues
    /\ OPENROUTER_API_KEY = ApiKeyAtImport(secrets, environ)
    /\ fonts_installed \in BOOLEAN
    /\ uploaded_files = << >>
    /\ output_language = ""
    /\ user_preferences = ""
    /\ session_state = EmptyDict
    /\ call = None
    /\ page = script_run("load", None, EmptyDict)
    /\ correction_data = Object([exercises |-> << >>])
    /\ output = None
    /\ pdf = None
    /\ prompt_args = None
    /\ system_prompt = None

Next ==
    \/ ChangeUploads
    \/ ChangeLanguage
    \/ ChangePreferences
    \/ ClickCorrectWithoutFiles
    \/ ClickCorrect
    \/ ClickClear
    \/ ClickDownload

Spec == Init /\ [][Next]_vars

---------------------------------------------------------------------------
(* Properties of the page (Spec).                                          *)

Called == call # None
Present(key) == key \in DOMAIN session_state

\* the message content of the answer is JSON text
HasJsonContent(response) ==
    /\ response.kind = "http"
    /\ response.body.json
    /\ "choices" \in DOMAIN response.body.data
    /\ Len(response.body.data.choices) > 0
    /\ response.body.data.choices[1].message.content.json

ContentOf(response) == response.body.data.choices[1].message.content.value

\* an object one of whose questions has no "question" or no "answer"
LacksQuestionOrAnswer(v) ==
    /\ v.type = "object"
    /\ \E e \in 1..Len(Get(v.value, "exercises", <<>>)) :
         LET questions == Get(v.value.exercises[e], "questions", <<>>)
         IN  \E k \in 1..Len(questions) : ~({"question", "answer"} \subseteq DOMAIN questions[k])

\* C1 as stated, for a process that holds a credential: a 200 answer whose content
\* is JSON with a question that lacks its answer makes correct_exercises fail with
\* MalformedResponseError; nothing is returned.
C1_AsStated ==
    (/\ Called
     /\ OPENROUTER_API_KEY # None
     /\ HasJsonContent(call[1].response)
     /\ call[1].response.status_code = 200
     /\ LacksQuestionOrAnswer(ContentOf(call[1].response)))
    => (/\ ~call[1].outcome.ok
        /\ call[1].outcome.exc = "MalformedResponseError")

\* C2 as stated: with no OPENROUTER_KEY in the secrets store nor in the
\* environment, a call fails with ConfigurationError and posts nothing.
C2_AsStated ==
    (Called /\ secrets = None /\ environ = None)
    => (/\ ~call[1].outcome.ok
        /\ call[1].outcome.exc = "ConfigurationError"
        /\ Len(call[1].sent) = 0)

\* C3 as stated, for a process that holds a credential: on an answer whose status
\* is not 2xx the call fails, after its one post, and the page stores nothing new.
\* (The kind of the exception is left open: the statement fails before it matters.)
C3_AsStated ==
    (/\ Called
     /\ OPENROUTER_API_KEY # None
     /\ call[1].response.kind = "http"
     /\ call[1].response.status_code \notin 200..299)
    => (/\ ~call[1].outcome.ok
        /\ Len(call[1].sent) = 1
        /\ session_state = call[1].before
        /\ page.error # None)

C5_ResultReplaced ==
    (Called /\ call[1].outcome.ok) =>
        /\ Present("correction_result")
        /\ session_state["correction_result"] = call[1].outcome.value
        /\ page.json # None => page.json = Some(call[1].outcome.value)

\* a result with exercises was stored, and the invocation returned another one
C5_Witness ==
    /\ Called
    /\ call[1].outcome.ok
    /\ call[1].outcome.value.type = "object"
    /\ "correction_result" \in DOMAIN call[1].before
    /\ call[1].before["correction_result"].type = "object"
    /\ call[1].before["correction_result"] # call[1].outcome.value
    /\ Len(call[1].before["correction_result"].value.exercises) > 0
    /\ Len(call[1].outcome.value.value.exercises) > 0

\* C10 as stated, for a process that holds a credential: correction_result and
\* formatted_result are both present or both absent; when present,
\* formatted_result is the rendering of correction_result; a Correct that showed
\* an error left both as they were; Clear removed both.
C10_AsStated ==
    OPENROUTER_API_KEY # None =>
        /\ Present("correction_result") <=> Present("formatted_result")
        /\ (Present("correction_result") /\ Present("formatted_result")) =>
             format_correction_output(session_state["correction_result"])
               = Returns(session_state["formatted_result"])
        /\ (Called /\ page.error # None) => session_state = call[1].before
        /\ page.trigger = "clear" => session_state = EmptyDict

============================================================================
